---- MODULE Spec2Model ----
(***************************************************************************)
(* CloudCopilot: the AWS Tool Executor (app/tools/aws_tools.py), the       *)
(* Conversation Orchestrator (app/agents/orchestrator.py), the Policy      *)
(* Reviewer (app/agents/bedrock_agent.py) and the HTTP endpoints           *)
(* (app/main.py), as state machines.                                       *)
(*                                                                         *)
(* Python values are modelled as follows.  None is the string "None".      *)
(* A credentials object is a string naming one (accessKeyId, secret,       *)
(* region) triple.  A dict is a function from key strings to strings.      *)
(* A text (a message, str(e), the output of json.dumps) is a sequence of   *)
(* string tokens: the literal parts of the f-string and the values         *)
(* interpolated into it, in order.                                         *)
(***************************************************************************)
EXTENDS Integers, Sequences, FiniteSets, TLC

VARIABLES
    aws_session,      \* AWSTools.session of the process-wide AWSTools instance
    sdk_calls,        \* SDK calls made by the Tool Executor so far (a log)
    tool_pc,          \* direct tool call: "idle" | "returned"
    tool_invocation,        \* direct tool call: the operation and arguments called
    tool_result,      \* direct tool call: the AWSResponse returned
    pc,               \* process_request / chat: position of the request
    req,              \* the ChatRequest: messages and awsCredentials
    openai_messages,  \* the conversation list built by process_request
    tool_calls,       \* message.tool_calls of the first model reply
    idx,              \* index of the next tool call of the for loop
    actions_taken,    \* process_request local
    aws_resources_affected, \* process_request local
    model_log,        \* conversations sent to the primary model, in order
    dispatched,       \* calls that reached a Tool Executor attribute, with results
    outcome,          \* what process_request returned or raised
    http,             \* what the endpoint answered
    bedrock_session,  \* BedrockAgent.session of the process-wide BedrockAgent
    rv_pc,            \* reviewer request: position
    rv_req,           \* reviewer request: endpoint, credentials, completion
    rv_result,        \* what the BedrockAgent operation returned or raised
    rv_http,          \* what the reviewer endpoint answered
    bedrock_log,      \* invoke_model calls made to the secondary model
    inflight          \* tool calls of requests handled at the same time

vars == <<aws_session, sdk_calls, tool_pc, tool_invocation, tool_result, pc, req,
          openai_messages, tool_calls, idx, actions_taken,
          aws_resources_affected, model_log, dispatched, outcome, http,
          bedrock_session, rv_pc, rv_req, rv_result, rv_http, bedrock_log,
          inflight>>

toolVars == <<tool_pc, tool_invocation, tool_result>>
chatVars == <<pc, req, openai_messages, tool_calls, idx, actions_taken,
              aws_resources_affected, model_log, dispatched, outcome, http>>
reviewerVars == <<bedrock_session, rv_pc, rv_req, rv_result, rv_http, bedrock_log>>

None == "None"

----------------------------------------------------------------------------
(* Bounds of the model.                                                    *)

\* Longest tool_calls list the primary model returns in one reply.
MaxToolCalls == 2

----------------------------------------------------------------------------
(* Credentials and the provider account.                                   *)

\* Two credential triples a request can carry.  credGood resolves to an
\* identity of the account; credBad has an access key id the provider
\* does not know.
Credentials == {"credGood", "credBad"}
ValidCredentials == {"credGood"}
OptCredentials == Credentials \cup {None}

MB == 1048576

\* A page of list_objects_v2: with an object listing, or without the
\* Contents key (an empty listing).
Page(sizes) == [KeyCount |-> Len(sizes), Contents |-> sizes]
EmptyPage == [KeyCount |-> 0]

\* The provider accounts the SDK can talk to: the buckets list_buckets
\* returns, the pages of each bucket's listing, the instances and roles, and
\* whether the Message of the provider's NoSuchEntity error repeats the
\* role name (the wording of that Message is the provider's).
WorldA ==
    [ buckets   |-> <<"b1", "b2">>,
      pages     |-> [b \in {"b1", "b2"} |->
                       IF b = "b1"
                       THEN <<Page(<<524288, 524288>>), Page(<<1048576>>)>>
                       ELSE <<EmptyPage>>],
      instances |-> <<[InstanceId |-> "i-1", InstanceType |-> "t2.micro",
                       State |-> "running", PublicIpAddress |-> "1.2.3.4"]>>,
      roles     |-> {"r1"},
      names_missing_role |-> TRUE ]
WorldB ==
    [ buckets   |-> <<"b1">>,
      pages     |-> [b \in {"b1"} |-> <<Page(<<3145728>>), EmptyPage>>],
      instances |-> <<>>,
      roles     |-> {},
      names_missing_role |-> FALSE ]
Worlds == {WorldA, WorldB}

----------------------------------------------------------------------------
(* Text.                                                                   *)

\* str(e) of a botocore ClientError.
ClientErrorText(code, api) ==
    <<"An error occurred (", code, ") when calling the ", api, " operation">>

ClientError(code, api) ==
    [type |-> "ClientError", code |-> code, text |-> ClientErrorText(code, api)]
\* Any failure of the SDK that is no ClientError (a BotoCoreError such as a
\* connection failure, an unknown region).
OtherError(api) ==
    [type |-> "BotoCoreError", code |-> None,
     text |-> <<"Could not connect to the endpoint URL: ", api>>]
\* The NoSuchEntity error of IAM for a role that does not exist: str(e)
\* ends in the Message of the provider's response, "Unknown" when the
\* response carries none.
NoSuchEntityError(call, world) ==
    [type |-> "ClientError", code |-> "NoSuchEntity",
     text |-> ClientErrorText("NoSuchEntity", call.api)
              \o (IF world.names_missing_role
                  THEN <<": The role with name ", call.target, " cannot be found.">>
                  ELSE <<": Unknown">>)]
PyException(text) == [type |-> "Exception", code |-> None, text |-> text]
NoError == [type |-> None, code |-> None, text |-> <<>>]

\* Provider error codes a service call can answer with.
ErrorCodes == {"InvalidAccessKeyId", "SignatureDoesNotMatch", "AccessDenied",
               "NoSuchBucket", "NoSuchEntity", "Throttling"}
CredentialCodes == {"InvalidAccessKeyId", "SignatureDoesNotMatch", "AccessDenied"}

----------------------------------------------------------------------------
(* The SDK as the Tool Executor sees it.  One tool call makes a sequence   *)
(* of SDK calls: boto3.Session, session.client, then service calls.  The   *)
(* environment sdk = [world, fault_at, fault] fixes the account and at     *)
(* most one injected failure: the fault_at-th SDK call of the tool call    *)
(* fails with provider code (or "Other" failure) fault.                    *)

Call(api, target) == [api |-> api, target |-> target]

FaultKinds == ErrorCodes \cup {"Other"}

\* boto3.Session and session.client contact no service: a failure there is
\* never a ClientError carrying a provider code.
FaultError(kind, api) ==
    IF kind = "Other" \/ api \in {"Session", "client"}
    THEN OtherError(api)
    ELSE ClientError(kind, api)

\* What the provider answers when nothing is injected.
Natural(call, credentials, world) ==
    IF call.api \in {"Session", "client"} THEN NoError
    ELSE IF credentials \notin ValidCredentials
    THEN ClientError("InvalidAccessKeyId", call.api)
    ELSE IF call.api = "list_objects_v2" /\ call.target \notin DOMAIN world.pages
    THEN ClientError("NoSuchBucket", call.api)
    ELSE IF call.api \in {"get_role", "list_attached_role_policies"}
            /\ call.target \notin world.roles
    THEN NoSuchEntityError(call, world)
    ELSE NoError

SdkOutcome(plan, k, credentials, sdk) ==
    IF sdk.fault_at = k
    THEN FaultError(sdk.fault, plan[k].api)
    ELSE Natural(plan[k], credentials, sdk.world)

\* Index of the first SDK call of the plan that fails, 0 when none does.
FirstFail(plan, credentials, sdk) ==
    LET bad == {k \in 1..Len(plan) :
                    SdkOutcome(plan, k, credentials, sdk).type # None}
    IN IF bad = {} THEN 0 ELSE CHOOSE k \in bad : \A j \in bad : k <= j

\* The pages paginator.paginate(Bucket=b) fetches, one list_objects_v2 each.
PagesOf(world, b) ==
    IF b \in DOMAIN world.pages THEN world.pages[b] ELSE <<EmptyPage>>

RECURSIVE PageCalls(_, _)
PageCalls(buckets, world) ==
    IF buckets = <<>> THEN <<>>
    ELSE [i \in 1..Len(PagesOf(world, Head(buckets))) |->
              Call("list_objects_v2", Head(buckets))]
         \o PageCalls(Tail(buckets), world)

\* AWSTools._init_session: the Session call of a plan; a failure of
\* boto3.Session comes back as an error string, otherwise self.session is
\* replaced by a session built from the credentials of this call.
_init_session(credentials, sdk) ==
    IF credentials = None
    THEN [error |-> <<"AWS credentials are required for this operation">>,
          session_set |-> FALSE, calls |-> <<>>]
    ELSE IF sdk.fault_at = 1
    THEN [error |-> <<"Failed to initialize AWS session: ">>
                     \o FaultError(sdk.fault, "Session").text,
          session_set |-> FALSE, calls |-> <<"Session">>]
    ELSE [error |-> <<>>, session_set |-> TRUE, calls |-> <<"Session">>]

\* AWSTools._get_client: raises Exception(error) or returns
\* self.session.client(service), which may fail itself.
_get_client(service, credentials, sdk) ==
    LET init == _init_session(credentials, sdk) IN
    IF init.error # <<>>
    THEN [raised |-> PyException(init.error), session_set |-> init.session_set,
          calls |-> init.calls]
    ELSE IF sdk.fault_at = 2
    THEN [raised |-> FaultError(sdk.fault, "client"), session_set |-> TRUE,
          calls |-> init.calls \o <<"client">>]
    ELSE [raised |-> NoError, session_set |-> TRUE,
          calls |-> init.calls \o <<"client">>]

\* The service calls of a tool call after _get_client, run to the first
\* failure: [raised, at, calls].
RunCalls(plan, credentials, sdk) ==
    LET shifted == [world |-> sdk.world, fault_at |-> sdk.fault_at - 2,
                    fault |-> sdk.fault]
        k == FirstFail(plan, credentials, shifted)
    IN IF k = 0
       THEN [raised |-> NoError, at |-> 0,
             calls |-> [i \in 1..Len(plan) |-> plan[i].api]]
       ELSE [raised |-> SdkOutcome(plan, k, credentials, shifted), at |-> k,
             calls |-> [i \in 1..k |-> plan[i].api]]

----------------------------------------------------------------------------
(* The Tool Executor: app/tools/aws_tools.py.                              *)

AWSResponse(success, data, message, requires_credentials) ==
    [success |-> success, data |-> data, message |-> message,
     requires_credentials |-> requires_credentials]

NoData == [kind |-> None]

\* Stands for no AWSResponse at all: the exception met is caught by no
\* except clause of the operation and leaves it.
Uncaught == AWSResponse(FALSE, [kind |-> "uncaught"], <<>>, FALSE)

\* What a tool call did: the AWSResponse it returned, the SDK calls it made,
\* whether it replaced self.session, the exception it met, and whether that
\* exception escaped to the caller instead of being handled.
Did(resp, calls, session_set, raised) ==
    [resp |-> resp, calls |-> calls, session_set |-> session_set,
     raised |-> raised, escaped |-> (resp = Uncaught)]

RECURSIVE SumSeq(_)
SumSeq(q) == IF q = <<>> THEN 0 ELSE Head(q) + SumSeq(Tail(q))

\* round(size / (1024 * 1024), 2), as a number of hundredths (round half
\* to even).
RoundMB(size) ==
    LET q == (size * 100) \div MB
        r == (size * 100) % MB
    IN IF 2 * r > MB \/ (2 * r = MB /\ q % 2 = 1) THEN q + 1 ELSE q

\* Faulty variant: only the first page of the listing is counted.
CountPages_FirstPage(pages) ==
    IF pages = <<>> \/ "Contents" \notin DOMAIN Head(pages)
    THEN [file_count |-> 0, total_size |-> 0]
    ELSE [file_count |-> Len(Head(pages).Contents),
          total_size |-> SumSeq(Head(pages).Contents)]

\* The two accumulators of the page loop: objects counted and bytes summed
\* over the pages that have Contents.
RECURSIVE CountPages(_)
CountPages(pages) ==
    IF pages = <<>> THEN [file_count |-> 0, total_size |-> 0]
    ELSE LET rest == CountPages(Tail(pages))
             page == Head(pages)
         IN IF "Contents" \in DOMAIN page
            THEN [file_count |-> Len(page.Contents) + rest.file_count,
                  total_size |-> SumSeq(page.Contents) + rest.total_size]
            ELSE rest

\* except ClientError of get_s3_bucket_sizes (lines 82-107).
SizesClientError(e) ==
    IF e.code = "InvalidAccessKeyId"
    THEN AWSResponse(FALSE, NoData,
           <<"The AWS Access Key ID you provided is invalid. Please check your credentials.">>,
           TRUE)
    ELSE IF e.code = "SignatureDoesNotMatch"
    THEN AWSResponse(FALSE, NoData,
           <<"The AWS Secret Access Key you provided is invalid. Please check your credentials.">>,
           TRUE)
    ELSE IF e.code = "AccessDenied"
    THEN AWSResponse(FALSE, NoData,
           <<"Your AWS credentials don't have permission to list S3 buckets. Please check your IAM permissions.">>,
           TRUE)
    ELSE AWSResponse(FALSE, NoData, <<"AWS error: ">> \o e.text, FALSE)

\* Faulty variant: the except Exception clause of lines 108-113 left out.
SizesHandler_ClientErrorOnly(e) ==
    IF e.type = "ClientError" THEN SizesClientError(e) ELSE Uncaught

SizesHandler(e) ==
    IF e.type = "ClientError" THEN SizesClientError(e)
    ELSE AWSResponse(FALSE, NoData,
                     <<"Error getting S3 bucket sizes: ">> \o e.text, FALSE)

get_s3_bucket_sizes(credentials, sdk) ==
    IF credentials = None
    THEN Did(AWSResponse(FALSE, NoData,
               <<"To list your S3 buckets and their sizes, I'll need your AWS credentials. Please provide them securely.">>,
               TRUE), <<>>, FALSE, NoError)
    ELSE
    LET client == _get_client("s3", credentials, sdk) IN
    IF client.raised.type # None
    THEN Did(SizesHandler(client.raised), client.calls, client.session_set,
             client.raised)
    ELSE
    LET world == sdk.world
        plan == <<Call("list_buckets", None)>> \o PageCalls(world.buckets, world)
        run == RunCalls(plan, credentials, sdk)
        buckets == [i \in 1..Len(world.buckets) |->
                      LET size == CountPages(world.pages[world.buckets[i]]).total_size
                      IN [name |-> world.buckets[i], size_bytes |-> size,
                          size_mb |-> RoundMB(size)]]
    IN IF run.raised.type # None
       THEN Did(SizesHandler(run.raised), client.calls \o run.calls, TRUE, run.raised)
       ELSE Did(AWSResponse(TRUE, [kind |-> "bucket_sizes", items |-> buckets],
                  <<"Successfully retrieved information for ",
                    ToString(Len(buckets)), " bucket(s)">>, FALSE),
                client.calls \o run.calls, TRUE, NoError)

\* except ClientError of list_ec2_instances (lines 145-164).
Ec2ClientError(e) ==
    IF e.code \in {"InvalidAccessKeyId", "SignatureDoesNotMatch"}
    THEN AWSResponse(FALSE, NoData,
           <<"Invalid AWS credentials provided. Please check your Access Key ID and Secret Access Key.">>,
           TRUE)
    ELSE IF e.code = "AccessDenied"
    THEN AWSResponse(FALSE, NoData,
           <<"Your AWS credentials don't have permission to list EC2 instances. Please check your IAM permissions.">>,
           TRUE)
    ELSE AWSResponse(FALSE, NoData, <<"AWS error: ">> \o e.text, FALSE)

Ec2Handler(e) ==
    IF e.type = "ClientError" THEN Ec2ClientError(e)
    ELSE AWSResponse(FALSE, NoData,
                     <<"Error listing EC2 instances: ">> \o e.text, FALSE)

\* instance.get(key, 'N/A')
GetOrNA(instance, key) ==
    IF key \in DOMAIN instance THEN instance[key] ELSE "N/A"

list_ec2_instances(credentials, sdk) ==
    IF credentials = None
    THEN Did(AWSResponse(FALSE, NoData,
               <<"To list your EC2 instances, I'll need your AWS credentials. Please provide them securely.">>,
               TRUE), <<>>, FALSE, NoError)
    ELSE
    LET client == _get_client("ec2", credentials, sdk) IN
    IF client.raised.type # None
    THEN Did(Ec2Handler(client.raised), client.calls, client.session_set,
             client.raised)
    ELSE
    LET run == RunCalls(<<Call("describe_instances", None)>>, credentials, sdk)
        found == sdk.world.instances
        instances == [i \in 1..Len(found) |->
                        [id |-> found[i].InstanceId,
                         type |-> found[i].InstanceType,
                         state |-> found[i].State,
                         public_ip |-> GetOrNA(found[i], "PublicIpAddress"),
                         private_ip |-> GetOrNA(found[i], "PrivateIpAddress")]]
    IN IF run.raised.type # None
       THEN Did(Ec2Handler(run.raised), client.calls \o run.calls, TRUE, run.raised)
       ELSE Did(AWSResponse(TRUE, [kind |-> "instances", items |-> instances],
                  <<"Successfully retrieved information for ",
                    ToString(Len(instances)), " instance(s)">>, FALSE),
                client.calls \o run.calls, TRUE, NoError)

\* except ClientError of describe_iam_role (lines 194-213).
IamClientError(e) ==
    IF e.code \in {"InvalidAccessKeyId", "SignatureDoesNotMatch"}
    THEN AWSResponse(FALSE, NoData,
           <<"Invalid AWS credentials provided. Please check your Access Key ID and Secret Access Key.">>,
           TRUE)
    ELSE IF e.code = "AccessDenied"
    THEN AWSResponse(FALSE, NoData,
           <<"Your AWS credentials don't have permission to access IAM roles. Please check your IAM permissions.">>,
           TRUE)
    ELSE AWSResponse(FALSE, NoData, <<"AWS error: ">> \o e.text, FALSE)

IamHandler(e) ==
    IF e.type = "ClientError" THEN IamClientError(e)
    ELSE AWSResponse(FALSE, NoData,
                     <<"Error describing IAM role: ">> \o e.text, FALSE)

\* The try statement of describe_iam_role (lines 180-219).
describe_iam_role_try(role_name, credentials, sdk) ==
    LET client == _get_client("iam", credentials, sdk) IN
    IF client.raised.type # None
    THEN Did(IamHandler(client.raised), client.calls, client.session_set,
             client.raised)
    ELSE
    LET run == RunCalls(<<Call("get_role", role_name),
                          Call("list_attached_role_policies", role_name)>>,
                        credentials, sdk)
    IN IF run.raised.type # None
       THEN Did(IamHandler(run.raised), client.calls \o run.calls, TRUE, run.raised)
       ELSE Did(AWSResponse(TRUE,
                  [kind |-> "role",
                   role |-> [RoleName |-> role_name, CreateDate |-> "datetime"],
                   attached_policies |-> <<>>],
                  <<"Successfully retrieved details for IAM role '", role_name, "'">>,
                  FALSE),
                client.calls \o run.calls, TRUE, NoError)

\* Faulty variant: the missing-credentials guard of lines 173-178 left out.
describe_iam_role_Unguarded(role_name, credentials, sdk) ==
    describe_iam_role_try(role_name, credentials, sdk)

describe_iam_role(role_name, credentials, sdk) ==
    IF credentials = None
    THEN Did(AWSResponse(FALSE, NoData,
               <<"To describe the IAM role '", role_name,
                 "', I'll need your AWS credentials. Please provide them securely.">>,
               TRUE), <<>>, FALSE, NoError)
    ELSE describe_iam_role_try(role_name, credentials, sdk)

\* str(x) of a float given in hundredths: 500 is "5.0", 525 is "5.25".
FloatRepr(h) ==
    <<ToString(h \div 100), ".", ToString((h % 100) \div 10)>>
    \o (IF h % 10 # 0 THEN <<ToString(h % 10)>> ELSE <<>>)

\* f"{x:.2f}" of a float given in hundredths.
Fixed2(h) ==
    <<ToString(h \div 100), ".", ToString((h % 100) \div 10), ToString(h % 10)>>

\* except ClientError of the outer listing try of get_s3_bucket_file_count
\* (lines 284-309).
CountClientError(e, bucket_name) ==
    IF e.code = "NoSuchBucket"
    THEN AWSResponse(FALSE, NoData,
           <<"The specified bucket '", bucket_name, "' does not exist">>, FALSE)
    ELSE IF e.code \in {"InvalidAccessKeyId", "SignatureDoesNotMatch"}
    THEN AWSResponse(FALSE, NoData,
           <<"Invalid AWS credentials provided. Please check your Access Key ID and Secret Access Key.">>,
           TRUE)
    ELSE IF e.code = "AccessDenied"
    THEN AWSResponse(FALSE, NoData,
           <<"Your AWS credentials don't have permission to list objects in S3 buckets. Please check your IAM permissions.">>,
           TRUE)
    ELSE AWSResponse(FALSE, NoData, <<"AWS error: ">> \o e.text, FALSE)

\* except Exception of get_s3_bucket_file_count (lines 311-316).
CountException(e) ==
    AWSResponse(FALSE, NoData, <<"Error counting S3 files: ">> \o e.text, FALSE)

\* Faulty variant: the page loop's except ClientError not nested in the
\* listing try, so that what it re-raises only meets except Exception.
CountHandler_NotNested(e, call, bucket_name) ==
    IF e.type # "ClientError" THEN CountException(e)
    ELSE IF call.api = "list_objects_v2"
    THEN IF e.code = "NoSuchBucket"
         THEN AWSResponse(FALSE, NoData,
                <<"The specified bucket '", call.target, "' does not exist">>, FALSE)
         ELSE CountException(e)
    ELSE CountClientError(e, bucket_name)

\* The handlers an exception raised by the SDK call `call` meets on its way
\* out: the page loop's except ClientError (lines 260-267) when it comes
\* from a page fetch, then lines 284-309, then lines 311-316.
CountHandler(e, call, bucket_name) ==
    IF e.type # "ClientError" THEN CountException(e)
    ELSE IF call.api = "list_objects_v2" /\ e.code = "NoSuchBucket"
    THEN AWSResponse(FALSE, NoData,
           <<"The specified bucket '", call.target, "' does not exist">>, FALSE)
    ELSE CountClientError(e, bucket_name)

RECURSIVE SumField(_, _)
SumField(stats, f) ==
    IF stats = <<>> THEN 0 ELSE Head(stats)[f] + SumField(Tail(stats), f)

\* The response message of lines 269-276.
CountMessage(bucket_stats) ==
    IF Len(bucket_stats) = 1
    THEN <<"Bucket '", bucket_stats[1].bucket_name, "' contains ",
           ToString(bucket_stats[1].file_count), " files (">>
         \o FloatRepr(bucket_stats[1].total_size_mb) \o <<" MB)">>
    ELSE <<"Found ", ToString(SumField(bucket_stats, "file_count")),
           " files across ", ToString(Len(bucket_stats)),
           " buckets (Total size: ">>
         \o Fixed2(SumField(bucket_stats, "total_size_mb")) \o <<" MB)">>

get_s3_bucket_file_count(bucket_name, credentials, sdk) ==
    IF credentials = None
    THEN Did(AWSResponse(FALSE, NoData,
               <<"To count files in your S3 buckets, I'll need your AWS credentials. Please provide them securely.">>,
               TRUE), <<>>, FALSE, NoError)
    ELSE
    LET client == _get_client("s3", credentials, sdk) IN
    IF client.raised.type # None
    THEN Did(CountException(client.raised), client.calls, client.session_set,
             client.raised)
    ELSE
    LET world == sdk.world
        buckets == IF bucket_name = None THEN world.buckets ELSE <<bucket_name>>
        plan == (IF bucket_name = None THEN <<Call("list_buckets", None)>> ELSE <<>>)
                \o PageCalls(buckets, world)
        run == RunCalls(plan, credentials, sdk)
        bucket_stats == [i \in 1..Len(buckets) |->
                           LET n == CountPages(world.pages[buckets[i]])
                           IN [bucket_name |-> buckets[i],
                               file_count |-> n.file_count,
                               total_size_bytes |-> n.total_size,
                               total_size_mb |-> RoundMB(n.total_size)]]
    IN IF run.raised.type # None
       THEN Did(CountHandler(run.raised, plan[run.at], bucket_name),
                client.calls \o run.calls, TRUE, run.raised)
       ELSE Did(AWSResponse(TRUE, [kind |-> "bucket_stats", items |-> bucket_stats],
                            CountMessage(bucket_stats), FALSE),
                client.calls \o run.calls, TRUE, NoError)

----------------------------------------------------------------------------
(* Direct calls of the Tool Executor.                                      *)

\* Deepest SDK call of a tool call at which a failure is injected.
MaxFaultAt == 6

SdkEnvs ==
    {[world |-> w, fault_at |-> k, fault |-> f] :
        w \in Worlds, k \in 0..MaxFaultAt, f \in FaultKinds}
    \ {e \in [world : Worlds, fault_at : {0}, fault : FaultKinds] :
           e.fault # "Other"}

ToolOperations == {"get_s3_bucket_sizes", "list_ec2_instances",
                   "describe_iam_role", "get_s3_bucket_file_count"}

BucketNames == {"b1", "nosuch"}
RoleNames == {"r1", "ghost"}

\* The keyword arguments (besides credentials) each operation is called with.
ToolArgs(op) ==
    IF op = "describe_iam_role" THEN RoleNames
    ELSE IF op = "get_s3_bucket_file_count" THEN BucketNames \cup {None}
    ELSE {None}

\* One call of a Tool Executor operation.
Execute(op, arg, credentials, sdk) ==
    IF op = "get_s3_bucket_sizes" THEN get_s3_bucket_sizes(credentials, sdk)
    ELSE IF op = "list_ec2_instances" THEN list_ec2_instances(credentials, sdk)
    ELSE IF op = "describe_iam_role" THEN describe_iam_role(arg, credentials, sdk)
    ELSE get_s3_bucket_file_count(arg, credentials, sdk)

NoToolCall == [op |-> None, arg |-> None, credentials |-> None,
               raised |-> NoError, session_before |-> None, sdk |-> None,
               escaped |-> FALSE]
NoResponse == AWSResponse(FALSE, NoData, <<>>, FALSE)

CallTool(op, arg, credentials, sdk) ==
    /\ tool_pc = "idle"
    /\ \E did \in {Execute(op, arg, credentials, sdk)} :
       /\ tool_result' = did.resp
       /\ sdk_calls' = did.calls
       /\ aws_session' = IF did.session_set THEN credentials ELSE aws_session
       /\ tool_invocation' = [op |-> op, arg |-> arg, credentials |-> credentials,
                        raised |-> did.raised, session_before |-> aws_session,
                        sdk |-> sdk, escaped |-> did.escaped]
    /\ tool_pc' = "returned"
    /\ UNCHANGED <<chatVars, reviewerVars, inflight>>

\* The caller takes the result; the next call starts with an empty log.
ToolDone ==
    /\ tool_pc = "returned"
    /\ tool_pc' = "idle"
    /\ tool_invocation' = NoToolCall
    /\ tool_result' = NoResponse
    /\ sdk_calls' = <<>>
    /\ UNCHANGED <<aws_session, chatVars, reviewerVars, inflight>>

----------------------------------------------------------------------------
(* Object listings and the pages list_objects_v2 splits them into.         *)

\* Most objects of a generated listing, and most pages of one listing.
MaxObjects == 2
MaxPages == 2

ObjectSizes == {0, 524288, 1048576}

\* Ten objects of 512 KiB: 5,242,880 bytes.
TenObjects == [i \in 1..10 |-> 524288]

Listings ==
    UNION {[1..n -> ObjectSizes] : n \in 0..MaxObjects} \cup {TenObjects}

\* The position of the last object of each of p pages over n objects.
Cuts(n, p) ==
    {c \in [0..p -> 0..n] :
        c[0] = 0 /\ c[p] = n /\ \A j \in 1..p : c[j - 1] <= c[j]}

\* The pages a paginator yields for a listing: each page carries the next
\* objects in order; a page with no object has no Contents key.
PagesFor(objects, c, p) ==
    [j \in 1..p |->
        IF c[j] = c[j - 1] THEN EmptyPage
        ELSE Page(SubSeq(objects, c[j - 1] + 1, c[j]))]

Splits(objects) ==
    UNION {{PagesFor(objects, c, p) : c \in Cuts(Len(objects), p)} :
              p \in 1..MaxPages}

\* An account whose bucket b1 holds the objects, listed in the given pages;
\* b2 is empty.
CountWorld(buckets, objects, pages) ==
    [ buckets   |-> buckets,
      pages     |-> [b \in {"b1", "b2"} |->
                       IF b = "b1" THEN pages ELSE <<EmptyPage>>],
      instances |-> <<>>,
      roles     |-> {},
      names_missing_role |-> FALSE,
      objects   |-> [b \in {"b1", "b2"} |->
                       IF b = "b1" THEN objects ELSE <<>>] ]

CountEnvs ==
    UNION {{[world |-> CountWorld(bs, objects, pages), fault_at |-> 0,
             fault |-> "Other"] :
               bs \in {<<"b1">>, <<"b2", "b1">>}, pages \in Splits(objects)} :
           objects \in Listings}

----------------------------------------------------------------------------
(* Tool calls of requests handled at the same time.  Every request uses    *)
(* the one AWSTools instance (orchestrator.py 33); a request gives way to  *)
(* another one only where the code awaits (orchestrator.py 283 and 376),   *)
(* that is before the tool coroutine starts and after it has returned: the *)
(* operations of aws_tools.py contain no await.                            *)

Requests == {"reqA", "reqB"}

NotInFlight == [pc |-> "idle", op |-> None, credentials |-> None,
                session_before |-> None, client |-> None, success |-> FALSE]

\* Faulty variant: a session, once created, is kept for the later calls.
SessionAfterInit_Kept(session, credentials, session_set) ==
    IF session # None THEN session
    ELSE IF session_set THEN credentials ELSE session

\* self.session when _init_session has returned: replaced by the session
\* of the credentials of this call, or left as it was when no session was
\* created.
SessionAfterInit(session, credentials, session_set) ==
    IF session_set THEN credentials ELSE session

\* The request reaches `await self._execute_function(...)` for a tool call.
ToolAwaited(r, op, credentials) ==
    /\ inflight[r].pc = "idle"
    /\ inflight' = [inflight EXCEPT ![r] =
                       [NotInFlight EXCEPT !.pc = "awaiting_tool", !.op = op,
                                           !.credentials = credentials]]
    /\ UNCHANGED <<aws_session, sdk_calls, toolVars, chatVars, reviewerVars>>

\* The tool coroutine runs from its first line to its return: _get_client
\* replaces self.session and builds the client from it (lines 44-47), and
\* the service calls are made on that client, a local of the operation.
ToolRuns(r, arg, sdk) ==
    /\ inflight[r].pc = "awaiting_tool"
    /\ \E did \in {Execute(inflight[r].op, arg, inflight[r].credentials, sdk)} :
       \E session \in {SessionAfterInit(aws_session, inflight[r].credentials,
                                        did.session_set)} :
          /\ aws_session' = session
          /\ sdk_calls' = did.calls
          /\ inflight' = [inflight EXCEPT ![r] =
                 [@ EXCEPT !.pc = "returned",
                           !.session_before = aws_session,
                           !.client = IF \E i \in 1..Len(did.calls) :
                                            did.calls[i] = "client"
                                      THEN session ELSE None,
                           !.success = did.resp.success]]
    /\ UNCHANGED <<toolVars, chatVars, reviewerVars>>

\* The result is taken by the loop of process_request.
ToolReturned(r) ==
    /\ inflight[r].pc = "returned"
    /\ inflight' = [inflight EXCEPT ![r] = NotInFlight]
    /\ UNCHANGED <<aws_session, sdk_calls, toolVars, chatVars, reviewerVars>>

----------------------------------------------------------------------------
(* The Conversation Orchestrator: app/agents/orchestrator.py.              *)

\* self.aws_operations: every entry maps to True.
aws_operations == {"get_s3_bucket_sizes", "list_ec2_instances",
                   "describe_iam_role", "create_s3_bucket",
                   "create_lambda_function", "create_iam_role",
                   "assign_policy_to_role", "get_s3_bucket_file_count"}

\* The function names of self.tools, the schema sent to the primary model.
DeclaredTools == {"get_s3_bucket_file_count", "get_s3_bucket_sizes",
                  "list_ec2_instances", "describe_iam_role",
                  "suggest_iam_policy", "create_s3_bucket",
                  "create_lambda_function", "create_iam_role",
                  "assign_policy_to_role"}

\* Faulty variant: get_s3_bucket_sizes missing from self.aws_operations.
_requires_aws_credentials_Missing(function_name) ==
    function_name \in aws_operations \ {"get_s3_bucket_sizes"}

_requires_aws_credentials(function_name) == function_name \in aws_operations

\* What hasattr(self.aws_tools, name) accepts among the names considered:
\* the four operations, the two helpers and the instance attribute.
AWSToolsAttributes == ToolOperations \cup {"_init_session", "_get_client", "session"}

EmptyDict == [k \in {} |-> ""]

\* json.loads of the argument strings the primary model is taken to send:
\* a dict of string values, a JSON value that is no dict, or a
\* JSONDecodeError.
JsonLoads(raw) ==
    CASE raw = "{}" ->
           [ok |-> TRUE, dict |-> TRUE, value |-> EmptyDict]
      [] raw = "{\"bucket_name\": \"b1\"}" ->
           [ok |-> TRUE, dict |-> TRUE, value |-> [bucket_name |-> "b1"]]
      [] raw = "{\"bucket_name\": \"b1\", \"credentials\": \"leak\"}" ->
           [ok |-> TRUE, dict |-> TRUE,
            value |-> [bucket_name |-> "b1", credentials |-> "leak"]]
      [] raw = "{\"role_name\": \"r1\"}" ->
           [ok |-> TRUE, dict |-> TRUE, value |-> [role_name |-> "r1"]]
      [] raw = "{\"description\": \"read s3\"}" ->
           [ok |-> TRUE, dict |-> TRUE, value |-> [description |-> "read s3"]]
      [] raw = "{\"service\": \"s3\"}" ->
           [ok |-> TRUE, dict |-> TRUE, value |-> [service |-> "s3"]]
      [] raw = "{\"verbose\": \"yes\"}" ->
           [ok |-> TRUE, dict |-> TRUE, value |-> [verbose |-> "yes"]]
      [] raw = "[]" ->
           [ok |-> TRUE, dict |-> FALSE, value |-> EmptyDict]
      [] OTHER ->
           [ok |-> FALSE, dict |-> FALSE, value |-> EmptyDict]

\* The keyword parameters of the callable attributes of AWSTools (self
\* left out): those without a default and those with one.
Required(name) ==
    IF name = "describe_iam_role" THEN {"role_name"}
    ELSE IF name = "_get_client" THEN {"service"}
    ELSE {}
Optional(name) ==
    IF name = "get_s3_bucket_file_count" THEN {"bucket_name", "credentials"}
    ELSE {"credentials"}

\* The TypeError of function(**arguments) when the keywords do not bind,
\* NoError when they do.
Bind(name, arguments) ==
    LET extra == DOMAIN arguments \ (Required(name) \cup Optional(name))
        missing == Required(name) \ DOMAIN arguments
    IN IF extra # {}
       THEN [type |-> "TypeError", code |-> None,
             text |-> <<name, "() got an unexpected keyword argument '",
                        CHOOSE k \in extra : TRUE, "'">>]
       ELSE IF missing # {}
       THEN [type |-> "TypeError", code |-> None,
             text |-> <<name, "() missing 1 required positional argument: '",
                        CHOOSE k \in missing : TRUE, "'">>]
       ELSE NoError

Get(arguments, key) ==
    IF key \in DOMAIN arguments THEN arguments[key] ELSE None

NoDid == Did(NoResponse, <<>>, FALSE, NoError)

\* OrchestratorAgent._execute_function: [raised, called, did].  called says
\* that an attribute of the Tool Executor was invoked; did is what a tool
\* operation returned and did.
_execute_function(function_name, arguments, session, sdk) ==
    IF function_name \notin AWSToolsAttributes
    THEN [raised |-> PyException(<<"Unknown function: ", function_name>>),
          called |-> FALSE, did |-> NoDid]
    ELSE IF function_name = "session"
    THEN [raised |-> [type |-> "TypeError", code |-> None,
                      text |-> IF session = None
                               THEN <<"'NoneType' object is not callable">>
                               ELSE <<"'Session' object is not callable">>],
          called |-> FALSE, did |-> NoDid]
    ELSE IF Bind(function_name, arguments).type # None
    THEN [raised |-> Bind(function_name, arguments), called |-> FALSE,
          did |-> NoDid]
    ELSE IF function_name = "_init_session"
    THEN \* returns a str (the credentials are None or no AWSCredentials),
         \* which await rejects
         [raised |-> [type |-> "TypeError", code |-> None,
                      text |-> <<"object str can't be used in 'await' expression">>],
          called |-> TRUE, did |-> NoDid]
    ELSE IF function_name = "_get_client"
    THEN [raised |-> PyException(
                       IF Get(arguments, "credentials") = None
                       THEN <<"AWS credentials are required for this operation">>
                       ELSE <<"Failed to initialize AWS session: ",
                              "'str' object has no attribute 'accessKeyId'">>),
          called |-> TRUE, did |-> NoDid]
    ELSE LET did == Execute(function_name,
                            IF function_name = "describe_iam_role"
                            THEN arguments["role_name"]
                            ELSE Get(arguments, "bucket_name"),
                            Get(arguments, "credentials"), sdk)
         IN [raised |-> IF did.escaped THEN did.raised ELSE NoError,
             called |-> TRUE, did |-> did]

\* json.dumps, token by token.
JStr(x) == <<"\"", x, "\"">>
JKey(k) == <<"\"", k, "\": ">>

JItem(kind, x) ==
    IF kind = "bucket_sizes"
    THEN <<"{">> \o JKey("name") \o JStr(x.name) \o <<", ">>
         \o JKey("size_bytes") \o <<ToString(x.size_bytes), ", ">>
         \o JKey("size_mb") \o FloatRepr(x.size_mb) \o <<"}">>
    ELSE IF kind = "instances"
    THEN <<"{">> \o JKey("id") \o JStr(x.id) \o <<", ">>
         \o JKey("type") \o JStr(x.type) \o <<", ">>
         \o JKey("state") \o JStr(x.state) \o <<", ">>
         \o JKey("public_ip") \o JStr(x.public_ip) \o <<", ">>
         \o JKey("private_ip") \o JStr(x.private_ip) \o <<"}">>
    ELSE <<"{">> \o JKey("bucket_name") \o JStr(x.bucket_name) \o <<", ">>
         \o JKey("file_count") \o <<ToString(x.file_count), ", ">>
         \o JKey("total_size_bytes") \o <<ToString(x.total_size_bytes), ", ">>
         \o JKey("total_size_mb") \o FloatRepr(x.total_size_mb) \o <<"}">>

RECURSIVE JItems(_, _)
JItems(kind, items) ==
    IF items = <<>> THEN <<>>
    ELSE JItem(kind, Head(items))
         \o (IF Tail(items) = <<>> THEN <<>> ELSE <<", ">>)
         \o JItems(kind, Tail(items))

\* A get_role answer carries CreateDate, a datetime, which json.dumps
\* rejects with a TypeError.
JsonSerializable(data) == data.kind # "role"

JsonDumps(data) ==
    IF data.kind = None THEN <<"null">>
    ELSE <<"[">> \o JItems(data.kind, data.items) \o <<"]">>

JsonTypeError ==
    [type |-> "TypeError", code |-> None,
     text |-> <<"Object of type datetime is not JSON serializable">>]

\* Tokens of the texts above that contain "credentials" or "access" when
\* lowercased: what the test of line 321 looks for in str(e).
CredentialWords ==
    {"AWS credentials are required for this operation",
     "'str' object has no attribute 'accessKeyId'",
     "credentials", "grant_access"}

MentionsCredentials(text) ==
    \E i \in 1..Len(text) : text[i] \in CredentialWords

ChatResponse(response, actions, resources, requiresCredentials) ==
    [response |-> response, actions_taken |-> actions,
     aws_resources_affected |-> resources,
     requiresCredentials |-> requiresCredentials]

NoChatResponse == ChatResponse(<<>>, <<>>, <<>>, None)

\* A message of the conversation.  A key the dict does not have is "absent";
\* content None is the empty text.
Message(role, content) ==
    [role |-> role, content |-> content, tool_call_id |-> "absent",
     name |-> "absent", tool_calls |-> <<>>]

\* The assistant tool-call record of lines 306-312.
AssistantRecord(tool_call) ==
    [role |-> "assistant", content |-> <<>>, tool_call_id |-> tool_call.id,
     name |-> tool_call.name, tool_calls |-> <<tool_call>>]

\* The tool result message of lines 313-317; result is result.data.
ToolMessage(tool_call, result) ==
    [role |-> "tool", content |-> JsonDumps(result),
     tool_call_id |-> tool_call.id, name |-> "absent", tool_calls |-> <<>>]

\* Faulty variant: the arguments recorded as they were passed to the tool.
ResourceEntry_Unfiltered(function_name, arguments) ==
    [operation |-> function_name, parameters |-> arguments]

\* The entry of lines 300-303.
ResourceEntry(function_name, arguments) ==
    [operation |-> function_name,
     parameters |-> [k \in DOMAIN arguments \ {"credentials"} |-> arguments[k]]]

\* The response of lines 270-273.
NeedCredentialsResponse ==
    ChatResponse(
      <<"I'll need your AWS credentials to perform this operation. Don't worry - your credentials will be used securely and only for this specific task. Please provide them in the prompt.">>,
      <<>>, <<>>, "True")

\* Faulty variant: a result asking for credentials answered with the fixed
\* text of lines 270-273 instead of the result's own message.
ResultNeedsCredentialsResponse_Generic(result) ==
    NeedCredentialsResponse

\* The response of lines 285-288.
ResultNeedsCredentialsResponse(result) ==
    ChatResponse(result.message, <<>>, <<>>, "True")

\* Faulty variant: the failure response built like the other two early
\* returns, without actions_taken.
FailedOperationResponse_NoActions(result, actions) ==
    ChatResponse(result.message, <<>>, <<>>, None)

\* The response of lines 290-293.
FailedOperationResponse(result, actions) ==
    ChatResponse(result.message, actions, <<>>, None)

\* The response of lines 322-325.
ExceptionNeedsCredentialsResponse(e) ==
    ChatResponse(<<"I need valid AWS credentials to perform this operation: ">>
                 \o e.text, <<>>, <<>>, "True")

\* What one pass of the for loop of lines 261-329 ends in: exit is
\* "continue" (next tool call), "NEEDS_CREDENTIALS" or "FAILED_OPERATION"
\* (a ChatResponse is returned) or "REQUEST_ERROR" (an exception leaves
\* the loop).  called: an attribute of the Tool Executor was invoked;
\* returned: it came back with an AWSResponse, did.resp.
Pass(exit, resp, exc, actions, resources, messages, ex) ==
    [exit |-> exit, resp |-> resp, exc |-> exc, actions |-> actions,
     resources |-> resources, messages |-> messages,
     called |-> ex.called, returned |-> ex.called /\ ex.raised.type = None,
     did |-> ex.did]

NotExecuted == [raised |-> NoError, called |-> FALSE, did |-> NoDid]

\* Faulty variant: the entry of line 295 put at the head of actions_taken.
HandleResult_Prepends(tool_call, arguments, result, actions, resources, messages, ex) ==
    IF result.requires_credentials
    THEN Pass("NEEDS_CREDENTIALS", ResultNeedsCredentialsResponse(result),
              NoError, actions, resources, messages, ex)
    ELSE IF ~result.success
    THEN Pass("FAILED_OPERATION", FailedOperationResponse(result, actions),
              NoError, actions, resources, messages, ex)
    ELSE
    LET actions2 == <<(<<"Successfully executed ", tool_call.name>>)>> \o actions
        resources2 == IF tool_call.name \in aws_operations
                      THEN Append(resources, ResourceEntry(tool_call.name, arguments))
                      ELSE resources
        messages2 == Append(messages, AssistantRecord(tool_call))
    IN IF ~JsonSerializable(result.data)
       THEN Pass("REQUEST_ERROR", NoChatResponse, JsonTypeError,
                 actions2, resources2, messages2, ex)
       ELSE Pass("continue", NoChatResponse, NoError, actions2, resources2,
                 Append(messages2, ToolMessage(tool_call, result.data)), ex)

\* Lines 283-317: the result of a tool call that did not raise.
HandleResult(tool_call, arguments, result, actions, resources, messages, ex) ==
    IF result.requires_credentials
    THEN Pass("NEEDS_CREDENTIALS", ResultNeedsCredentialsResponse(result),
              NoError, actions, resources, messages, ex)
    ELSE IF ~result.success
    THEN Pass("FAILED_OPERATION", FailedOperationResponse(result, actions),
              NoError, actions, resources, messages, ex)
    ELSE
    LET actions2 == Append(actions, <<"Successfully executed ", tool_call.name>>)
        resources2 == IF tool_call.name \in aws_operations
                      THEN Append(resources, ResourceEntry(tool_call.name, arguments))
                      ELSE resources
        messages2 == Append(messages, AssistantRecord(tool_call))
    IN IF ~JsonSerializable(result.data)
       THEN \* json.dumps raises; str(e) does not pass the test of line 321
            Pass("REQUEST_ERROR", NoChatResponse, JsonTypeError,
                 actions2, resources2, messages2, ex)
       ELSE Pass("continue", NoChatResponse, NoError, actions2, resources2,
                 Append(messages2, ToolMessage(tool_call, result.data)), ex)

\* Lines 319-326: an exception of _execute_function.
HandleException(e, actions, resources, messages, ex) ==
    IF MentionsCredentials(e.text)
    THEN Pass("NEEDS_CREDENTIALS", ExceptionNeedsCredentialsResponse(e),
              NoError, actions, resources, messages, ex)
    ELSE Pass("REQUEST_ERROR", NoChatResponse, e, actions, resources, messages, ex)

\* Lines 262-329 for one tool call.
Iteration(tool_call, aws_credentials, actions, resources, messages, session, sdk) ==
    LET function_name == tool_call.name
        parsed == JsonLoads(tool_call.arguments)
    IN
    IF ~parsed.ok
    THEN Pass("REQUEST_ERROR", NoChatResponse,
              [type |-> "JSONDecodeError", code |-> None,
               text |-> <<"Expecting property name enclosed in double quotes: line 1 column 2 (char 1)">>],
              actions, resources, messages, NotExecuted)
    ELSE IF _requires_aws_credentials(function_name) /\ aws_credentials = None
    THEN Pass("NEEDS_CREDENTIALS", NeedCredentialsResponse, NoError,
              actions, resources, messages, NotExecuted)
    ELSE IF _requires_aws_credentials(function_name) /\ ~parsed.dict
    THEN \* arguments['credentials'] = ... on a list
         Pass("REQUEST_ERROR", NoChatResponse,
              [type |-> "TypeError", code |-> None,
               text |-> <<"list indices must be integers or slices, not str">>],
              actions, resources, messages, NotExecuted)
    ELSE
    LET arguments == IF _requires_aws_credentials(function_name)
                     THEN ("credentials" :> aws_credentials) @@ parsed.value
                     ELSE parsed.value
        ex == _execute_function(function_name, arguments, session, sdk)
    IN IF ex.raised.type # None
       THEN HandleException(ex.raised, actions, resources, messages, ex)
       ELSE HandleResult(tool_call, arguments, ex.did.resp, actions,
                         resources, messages, ex)

\* Line 354: whatever leaves process_request is a plain Exception.
Wrapped(e) == PyException(<<"Error in process_request: ">> \o e.text)

Outcome(kind, resp, exc, cause) ==
    [kind |-> kind, resp |-> resp, exc |-> exc, cause |-> cause]
NoOutcome == Outcome(None, NoChatResponse, NoError, NoError)
Returned(resp) == Outcome("response", resp, NoError, NoError)
Raised(e) == Outcome("raise", NoChatResponse, Wrapped(e), e)

----------------------------------------------------------------------------
(* POST /chat (app/main.py) driving process_request.                       *)

SystemMessage ==
    Message("system",
      <<"You are CloudPilot, an AI assistant specialized in AWS cloud operations. You can help with AWS infrastructure management, security best practices, and resource optimization.">>)

RequestMessages ==
    { <<Message("user", <<"list my buckets">>)>>,
      <<Message("system", <<"be brief">>), Message("user", <<"list my buckets">>)>> }

\* Lines 93-100 of main.py.
WithSystemMessage(messages) ==
    IF \E i \in 1..Len(messages) : messages[i].role = "system"
    THEN messages
    ELSE <<SystemMessage>> \o messages

\* The tool calls the primary model is taken to choose from.
ToolCallChoices ==
    { [name |-> "get_s3_bucket_sizes", arguments |-> "{}"],
      [name |-> "get_s3_bucket_sizes", arguments |-> "{\"verbose\": \"yes\"}"],
      [name |-> "get_s3_bucket_sizes", arguments |-> "{not json"],
      [name |-> "list_ec2_instances", arguments |-> "[]"],
      [name |-> "get_s3_bucket_file_count",
       arguments |-> "{\"bucket_name\": \"b1\", \"credentials\": \"leak\"}"],
      [name |-> "describe_iam_role", arguments |-> "{\"role_name\": \"r1\"}"],
      [name |-> "create_s3_bucket", arguments |-> "{\"bucket_name\": \"b1\"}"],
      [name |-> "suggest_iam_policy", arguments |-> "{\"description\": \"read s3\"}"],
      [name |-> "_get_client", arguments |-> "{\"service\": \"s3\"}"],
      [name |-> "session", arguments |-> "{}"],
      [name |-> "grant_access", arguments |-> "{}"] }

\* message.tool_calls of a reply: 1..MaxToolCalls calls with distinct ids.
ToolCallLists ==
    UNION {{[i \in 1..n |-> [id |-> ToString(i), name |-> f[i].name,
                             arguments |-> f[i].arguments]] :
               f \in [1..n -> ToolCallChoices]} : n \in 1..MaxToolCalls}

\* The failures of self.client.chat.completions.create.
ModelErrors ==
    {[type |-> t, code |-> None, text |-> <<t>>] :
        t \in {"AuthenticationError", "RateLimitError", "BadRequestError",
               "APIError", "ConnectionResetError"}}

FirstReplyText == <<"I can help with that.">>
FinalReplyText == <<"Here is what I found.">>

NoHttp == [status |-> 0, body |-> NoChatResponse]

\* chat() calls process_request, which sends the conversation and the tool
\* schema to the primary model (lines 227-238).
NewChat(messages, credentials) ==
    /\ pc \in {"idle", "answered"}
    /\ tool_pc = "idle" /\ rv_pc \in {"idle", "answered"}
    /\ req' = [messages |-> WithSystemMessage(messages),
               awsCredentials |-> credentials]
    /\ openai_messages' = WithSystemMessage(messages)
    /\ model_log' = <<[messages |-> WithSystemMessage(messages), tools |-> TRUE]>>
    /\ tool_calls' = <<>>
    /\ idx' = 1
    /\ actions_taken' = <<>>
    /\ aws_resources_affected' = <<>>
    /\ dispatched' = <<>>
    /\ sdk_calls' = <<>>
    /\ outcome' = NoOutcome
    /\ http' = NoHttp
    /\ pc' = "AWAIT_MODEL_DECISION"
    /\ UNCHANGED <<aws_session, toolVars, reviewerVars, inflight>>

\* Lines 240-254: the first model call fails.
ModelFails(e) ==
    /\ pc = "AWAIT_MODEL_DECISION"
    /\ outcome' = Raised(e)
    /\ pc' = "REQUEST_ERROR"
    /\ UNCHANGED <<aws_session, sdk_calls, toolVars, req, openai_messages,
                   tool_calls, idx, actions_taken, aws_resources_affected,
                   model_log, dispatched, http, reviewerVars, inflight>>

\* Lines 342-350: the reply has no tool calls.
ModelAnswers ==
    /\ pc = "AWAIT_MODEL_DECISION"
    /\ outcome' = Returned(ChatResponse(FirstReplyText, actions_taken,
                                        aws_resources_affected, "False"))
    /\ pc' = "DONE"
    /\ UNCHANGED <<aws_session, sdk_calls, toolVars, req, openai_messages,
                   tool_calls, idx, actions_taken, aws_resources_affected,
                   model_log, dispatched, http, reviewerVars, inflight>>

\* Line 260: the reply has tool calls.
ModelCallsTools(calls) ==
    /\ pc = "AWAIT_MODEL_DECISION"
    /\ tool_calls' = calls
    /\ idx' = 1
    /\ pc' = "DISPATCHING_TOOLS"
    /\ UNCHANGED <<aws_session, sdk_calls, toolVars, req, openai_messages,
                   actions_taken, aws_resources_affected, model_log,
                   dispatched, outcome, http, reviewerVars, inflight>>

\* One pass of the for loop; after the last tool call the conversation is
\* sent to the model again (lines 331-336).
DispatchTool(sdk) ==
    /\ pc = "DISPATCHING_TOOLS"
    /\ idx <= Len(tool_calls)
    /\ \E it \in {Iteration(tool_calls[idx], req.awsCredentials, actions_taken,
                            aws_resources_affected, openai_messages,
                            aws_session, sdk)} :
          /\ actions_taken' = it.actions
          /\ aws_resources_affected' = it.resources
          /\ openai_messages' = it.messages
          /\ sdk_calls' = sdk_calls \o it.did.calls
          /\ aws_session' = IF it.did.session_set THEN req.awsCredentials
                            ELSE aws_session
          /\ dispatched' = IF it.called
                           THEN Append(dispatched,
                                  [idx |-> idx, name |-> tool_calls[idx].name,
                                   returned |-> it.returned,
                                   resp |-> it.did.resp])
                           ELSE dispatched
          /\ IF it.exit = "continue"
             THEN /\ idx' = idx + 1
                  /\ outcome' = outcome
                  /\ IF idx = Len(tool_calls)
                     THEN /\ pc' = "AWAIT_FINAL_REPLY"
                          /\ model_log' = Append(model_log,
                                 [messages |-> it.messages, tools |-> FALSE])
                     ELSE /\ pc' = pc
                          /\ model_log' = model_log
             ELSE /\ idx' = idx
                  /\ model_log' = model_log
                  /\ pc' = it.exit
                  /\ outcome' = IF it.exit = "REQUEST_ERROR"
                                THEN Raised(it.exc)
                                ELSE Returned(it.resp)
    /\ UNCHANGED <<toolVars, req, tool_calls, http, reviewerVars, inflight>>

\* Faulty variant: the final reply taken as a new decision of the model.
FinalReply_Replans ==
    /\ pc = "AWAIT_FINAL_REPLY"
    /\ pc' = "AWAIT_MODEL_DECISION"
    /\ UNCHANGED <<aws_session, sdk_calls, toolVars, req, openai_messages,
                   tool_calls, idx, actions_taken, aws_resources_affected,
                   model_log, dispatched, outcome, http, reviewerVars, inflight>>

\* Lines 337-350: the final reply.
FinalReply ==
    /\ pc = "AWAIT_FINAL_REPLY"
    /\ outcome' = Returned(ChatResponse(FinalReplyText, actions_taken,
                                        aws_resources_affected, "False"))
    /\ pc' = "DONE"
    /\ UNCHANGED <<aws_session, sdk_calls, toolVars, req, openai_messages,
                   tool_calls, idx, actions_taken, aws_resources_affected,
                   model_log, dispatched, http, reviewerVars, inflight>>

\* Lines 339-341: the second model call fails.
FinalFails(e) ==
    /\ pc = "AWAIT_FINAL_REPLY"
    /\ outcome' = Raised(e)
    /\ pc' = "REQUEST_ERROR"
    /\ UNCHANGED <<aws_session, sdk_calls, toolVars, req, openai_messages,
                   tool_calls, idx, actions_taken, aws_resources_affected,
                   model_log, dispatched, http, reviewerVars, inflight>>

Terminal == {"DONE", "NEEDS_CREDENTIALS", "FAILED_OPERATION", "REQUEST_ERROR"}

\* The except clauses of chat() (main.py lines 109-157), by the class of
\* the exception process_request raised.
ChatStatus(e) ==
    IF e.type = "AuthenticationError" THEN 401
    ELSE IF e.type = "RateLimitError" THEN 429
    ELSE IF e.type = "BadRequestError" THEN 400
    ELSE 500

\* chat() answers: the ChatResponse with status 200, or an HTTPException.
ChatResponds ==
    /\ pc \in Terminal
    /\ http' = IF outcome.kind = "response"
               THEN [status |-> 200, body |-> outcome.resp]
               ELSE [status |-> ChatStatus(outcome.exc), body |-> NoChatResponse]
    /\ pc' = "answered"
    /\ UNCHANGED <<aws_session, sdk_calls, toolVars, req, openai_messages,
                   tool_calls, idx, actions_taken, aws_resources_affected,
                   model_log, dispatched, outcome, reviewerVars, inflight>>

----------------------------------------------------------------------------
(* The Policy Reviewer: app/agents/bedrock_agent.py.                       *)

\* The completions the secondary model is taken to return.
Completions ==
    {"", "Here is a policy you could use", "{\"Version\": \"2012-10-17\"}",
     "{\"is_valid\": true}", "[\"s3:GetObject\"]"}

\* A Python value an operation of the reviewer returns: a dict with its
\* keys and the entries the callers read, or a list.
PyValue(type, keys, is_valid, invalid_parameters, response) ==
    [type |-> type, keys |-> keys, is_valid |-> is_valid,
     invalid_parameters |-> invalid_parameters, response |-> response]
NoValue == PyValue(None, {}, None, <<>>, None)

\* json.loads of a completion: the parsed value, or a JSONDecodeError.
LoadsCompletion(completion) ==
    CASE completion = "{\"Version\": \"2012-10-17\"}" ->
           [ok |-> TRUE, value |-> PyValue("dict", {"Version"}, None, <<>>, None)]
      [] completion = "{\"is_valid\": true}" ->
           [ok |-> TRUE, value |-> PyValue("dict", {"is_valid"}, "True", <<>>, None)]
      [] completion = "[\"s3:GetObject\"]" ->
           [ok |-> TRUE, value |-> PyValue("list", {}, None, <<>>, None)]
      [] OTHER -> [ok |-> FALSE, value |-> NoValue]

\* The environment of one reviewer call: whether the identity check meets
\* a failure of its own, the failure of the Bedrock path if any, and the
\* completion the model returns.
BedrockFaults == {None, "Session", "client", "AccessDeniedException",
                  "ValidationException", "ThrottlingException",
                  "InternalServerException", "BotoCoreError"}
ReviewerEnvs ==
    [sts_fault : BOOLEAN, bedrock_fault : BedrockFaults, completion : Completions]

\* What a reviewer operation did: [kind, value, exc] with kind "return" or
\* "raise", the session it left in self.session, the model invocations it
\* made, the completion the model returned ("" when none came back) and
\* how the identity check went: "skipped", "failed" or "passed".
Reviewed(kind, value, exc, inv, identity) ==
    [kind |-> kind, value |-> value, exc |-> exc, session |-> inv.session,
     invocations |-> inv.invocations, completion |-> inv.completion,
     identity |-> identity]

\* BedrockAgent._invoke_bedrock (with _get_bedrock_client and
\* _init_session): [raised, completion, session, invocations].
_invoke_bedrock(credentials, session, env) ==
    LET wrap(text) == PyException(<<"Error in _invoke_bedrock: ">> \o text)
        out(raised, completion, sess, invocations) ==
            [raised |-> raised, completion |-> completion, session |-> sess,
             invocations |-> invocations]
    IN
    IF credentials = None
    THEN out(wrap(<<"AWS credentials are required for this operation">>),
             "", session, <<>>)
    ELSE IF env.bedrock_fault = "Session"
    THEN out(wrap(OtherError("Session").text), "", session, <<>>)
    ELSE IF env.bedrock_fault = "client"
    THEN out(wrap(<<"AWS Bedrock connection error: ">> \o OtherError("client").text),
             "", credentials, <<>>)
    ELSE
    LET invocations == <<[credentials |-> credentials]>> IN
    IF env.bedrock_fault = "BotoCoreError"
    THEN out(wrap(<<"AWS Bedrock connection error: ">>
                  \o OtherError("invoke_model").text),
             "", credentials, invocations)
    ELSE IF env.bedrock_fault = "AccessDeniedException"
    THEN out(wrap(<<"Access denied to AWS Bedrock. Please check your IAM permissions.">>),
             "", credentials, invocations)
    ELSE IF env.bedrock_fault = "ValidationException"
    THEN out(wrap(<<"Invalid request to Bedrock: ">>
                  \o ClientErrorText("ValidationException", "InvokeModel")),
             "", credentials, invocations)
    ELSE IF env.bedrock_fault = "ThrottlingException"
    THEN out(wrap(<<"AWS Bedrock request was throttled. Please try again later.">>),
             "", credentials, invocations)
    ELSE IF env.bedrock_fault # None \/ credentials \notin ValidCredentials
    THEN out(wrap(<<"AWS Bedrock error: ">>
                  \o ClientErrorText(IF env.bedrock_fault # None
                                     THEN env.bedrock_fault
                                     ELSE "UnrecognizedClientException",
                                     "InvokeModel")),
             "", credentials, invocations)
    ELSE IF env.completion = ""
    THEN out(wrap(<<"Empty response from Bedrock">>), "", credentials, invocations)
    ELSE out(NoError, env.completion, credentials, invocations)

\* Faulty variant: the JSONDecodeError of line 141 not caught.
suggest_iam_policy_Uncaught(credentials, session, env) ==
    LET inv == _invoke_bedrock(credentials, session, env)
        policy == LoadsCompletion(inv.completion)
    IN IF inv.raised.type # None
       THEN Reviewed("raise", NoValue, inv.raised, inv, "skipped")
       ELSE IF policy.ok
       THEN Reviewed("return", policy.value, NoError, inv, "skipped")
       ELSE Reviewed("raise", NoValue,
                     [type |-> "JSONDecodeError", code |-> None,
                      text |-> <<"Expecting value: line 1 column 1 (char 0)">>],
                     inv, "skipped")

\* BedrockAgent.suggest_iam_policy.
suggest_iam_policy(credentials, session, env) ==
    LET inv == _invoke_bedrock(credentials, session, env)
        policy == LoadsCompletion(inv.completion)
    IN IF inv.raised.type # None
       THEN Reviewed("raise", NoValue, inv.raised, inv, "skipped")
       ELSE IF policy.ok
       THEN Reviewed("return", policy.value, NoError, inv, "skipped")
       ELSE Reviewed("return",
                     PyValue("dict", {"error", "response"}, None, <<>>,
                             inv.completion),
                     NoError, inv, "skipped")

\* The verdict of lines 60-75.
InvalidCredentialsVerdict ==
    PyValue("dict",
            {"is_valid", "security_concerns", "best_practice_suggestions",
             "parameter_validation", "recommendation"},
            "False", <<"credentials">>, None)

\* Lines 55-58: self.session.client('sts').get_caller_identity(), on the
\* session an earlier call left in self.session.
IdentityCheckFails(session, env) ==
    \/ session = None
    \/ session \notin ValidCredentials
    \/ env.sts_fault

\* Lines 77-111 of validate_aws_operation: prompt the model and parse its
\* verdict.
validate_review(credentials, session, env, identity) ==
    LET inv == _invoke_bedrock(credentials, session, env)
        parsed == LoadsCompletion(inv.completion)
    IN IF inv.raised.type # None
       THEN Reviewed("raise", NoValue, inv.raised, inv, identity)
       ELSE IF ~parsed.ok
       THEN Reviewed("raise", NoValue,
                     [type |-> "JSONDecodeError", code |-> None,
                      text |-> <<"Expecting value: line 1 column 1 (char 0)">>],
                     inv, identity)
       ELSE IF parsed.value.type # "dict" \/ "is_valid" \notin parsed.value.keys
       THEN Reviewed("raise", NoValue,
                     PyException(<<"Invalid validation response format">>),
                     inv, identity)
       ELSE Reviewed("return", parsed.value, NoError, inv, identity)

\* Faulty variant: a failed identity check only logged, the review going on.
validate_aws_operation_Unchecked(credentials, session, env) ==
    validate_review(credentials, session, env,
                    IF credentials = None THEN "skipped"
                    ELSE IF IdentityCheckFails(session, env) THEN "failed"
                    ELSE "passed")

\* BedrockAgent.validate_aws_operation.
validate_aws_operation(credentials, session, env) ==
    IF credentials = None
    THEN validate_review(credentials, session, env, "skipped")
    ELSE IF IdentityCheckFails(session, env)
    THEN Reviewed("return", InvalidCredentialsVerdict, NoError,
                  [session |-> session, invocations |-> <<>>, completion |-> ""],
                  "failed")
    ELSE validate_review(credentials, session, env, "passed")

----------------------------------------------------------------------------
(* POST /suggest-iam-policy and POST /validate-aws-operation (app/main.py) *)
(* driving the Policy Reviewer.                                            *)

ReviewerOperations == {"suggest_iam_policy", "validate_aws_operation"}

NoReview == [op |-> None, credentials |-> None, session_before |-> None,
             env |-> [sts_fault |-> FALSE, bedrock_fault |-> None,
                      completion |-> ""]]
NoReviewed ==
    Reviewed(None, NoValue, NoError,
             [session |-> None, invocations |-> <<>>, completion |-> ""],
             "skipped")

NewReview(op, credentials) ==
    /\ rv_pc \in {"idle", "answered"}
    /\ pc \in {"idle", "answered"} /\ tool_pc = "idle"
    /\ rv_req' = [NoReview EXCEPT !.op = op, !.credentials = credentials,
                                  !.session_before = bedrock_session]
    /\ rv_result' = NoReviewed
    /\ rv_http' = 0
    /\ bedrock_log' = <<>>
    /\ rv_pc' = "called"
    /\ UNCHANGED <<aws_session, sdk_calls, toolVars, chatVars, inflight, bedrock_session>>

\* The operation runs to its end: it has no await that suspends.
ReviewerRuns(env) ==
    /\ rv_pc = "called"
    /\ \E r \in {IF rv_req.op = "suggest_iam_policy"
                 THEN suggest_iam_policy(rv_req.credentials, bedrock_session, env)
                 ELSE validate_aws_operation(rv_req.credentials, bedrock_session, env)} :
          /\ rv_result' = r
          /\ bedrock_session' = r.session
          /\ bedrock_log' = r.invocations
    /\ rv_req' = [rv_req EXCEPT !.env = env]
    /\ rv_pc' = "returned"
    /\ UNCHANGED <<aws_session, sdk_calls, toolVars, chatVars, inflight, rv_http>>

HTTPException(status) ==
    [type |-> "HTTPException", code |-> ToString(status), text |-> <<>>]

\* The try body of the /suggest-iam-policy handler (lines 170-180): the
\* exception that leaves it, NoError when it returns an IAMPolicyResponse.
SuggestBody(r) ==
    IF r.kind = "raise" THEN r.exc
    ELSE IF r.value.type = "dict" /\ "error" \in r.value.keys
    THEN HTTPException(400)
    ELSE IF r.value.type # "dict"
    THEN \* policy_document: Dict[str, Any] rejects it
         [type |-> "ValidationError", code |-> None,
          text |-> <<"policy_document: Input should be a valid dictionary">>]
    ELSE NoError

\* Lines 181-182: except Exception answers 500 for whatever the body raised.
SuggestStatus(r) ==
    IF SuggestBody(r).type # None THEN 500 ELSE 200

\* The /validate-aws-operation handler (lines 186-193).
ValidateStatus(r) ==
    IF r.kind = "raise" THEN 500 ELSE 200

ReviewerResponds ==
    /\ rv_pc = "returned"
    /\ rv_http' = IF rv_req.op = "suggest_iam_policy"
                  THEN SuggestStatus(rv_result)
                  ELSE ValidateStatus(rv_result)
    /\ rv_pc' = "answered"
    /\ UNCHANGED <<aws_session, sdk_calls, toolVars, chatVars, inflight, bedrock_session,
                   rv_req, rv_result, bedrock_log>>

----------------------------------------------------------------------------
(* Specifications.                                                         *)

Init ==
    /\ aws_session = None
    /\ sdk_calls = <<>>
    /\ tool_pc = "idle"
    /\ tool_invocation = NoToolCall
    /\ tool_result = NoResponse
    /\ pc = "idle"
    /\ req = [messages |-> <<>>, awsCredentials |-> None]
    /\ openai_messages = <<>>
    /\ tool_calls = <<>>
    /\ idx = 1
    /\ actions_taken = <<>>
    /\ aws_resources_affected = <<>>
    /\ model_log = <<>>
    /\ dispatched = <<>>
    /\ outcome = NoOutcome
    /\ http = NoHttp
    /\ bedrock_session = None
    /\ rv_pc = "idle"
    /\ rv_req = NoReview
    /\ rv_result = NoReviewed
    /\ rv_http = 0
    /\ bedrock_log = <<>>
    /\ inflight = [r \in Requests |-> NotInFlight]

\* POST /chat requests, one after the other.
Next ==
    \/ \E m \in RequestMessages, c \in OptCredentials : NewChat(m, c)
    \/ \E e \in ModelErrors : ModelFails(e)
    \/ ModelAnswers
    \/ \E calls \in ToolCallLists : ModelCallsTools(calls)
    \/ \E sdk \in SdkEnvs : DispatchTool(sdk)
    \/ FinalReply
    \/ \E e \in ModelErrors : FinalFails(e)
    \/ ChatResponds

Spec == Init /\ [][Next]_vars

\* Calls of the Tool Executor operations, one after the other.
NextTools ==
    \/ \E op \in ToolOperations, c \in OptCredentials, sdk \in SdkEnvs :
          \E arg \in ToolArgs(op) : CallTool(op, arg, c, sdk)
    \/ ToolDone

SpecTools == Init /\ [][NextTools]_vars

\* Reviewer requests, one after the other.
NextReviewer ==
    \/ \E op \in ReviewerOperations, c \in OptCredentials : NewReview(op, c)
    \/ \E env \in ReviewerEnvs : ReviewerRuns(env)
    \/ ReviewerResponds

SpecReviewer == Init /\ [][NextReviewer]_vars

\* Tool calls of two requests in flight, interleaved at the awaits.
NextConcurrent ==
    \/ \E r \in Requests, op \in ToolOperations, c \in OptCredentials :
          ToolAwaited(r, op, c)
    \/ \E r \in Requests, sdk \in SdkEnvs :
          \E arg \in ToolArgs(inflight[r].op) : ToolRuns(r, arg, sdk)
    \/ \E r \in Requests : ToolReturned(r)

SpecConcurrent == Init /\ [][NextConcurrent]_vars

\* Calls of get_s3_bucket_file_count against listings split into pages.
NextCount ==
    \/ \E arg \in BucketNames \cup {None}, c \in OptCredentials,
          sdk \in CountEnvs :
          CallTool("get_s3_bucket_file_count", arg, c, sdk)
    \/ ToolDone

SpecCount == Init /\ [][NextCount]_vars

----------------------------------------------------------------------------
(* Properties of the Tool Executor (checked under SpecTools).              *)

\* C1: a call of any Tool Executor operation without credentials returns
\* success=false and requiresCredentials=true, leaves self.session as it
\* was (no provider session is created) and makes no SDK call.
C1_NoCredentialsNoCall ==
    (tool_pc = "returned" /\ tool_invocation.credentials = None) =>
        /\ tool_result.success = FALSE
        /\ tool_result.requires_credentials = TRUE
        /\ sdk_calls = <<>>
        /\ aws_session = tool_invocation.session_before

\* An operation called without credentials after an earlier call left a
\* session behind.
C1_Witness ==
    /\ tool_pc = "returned"
    /\ tool_invocation.credentials = None
    /\ tool_invocation.op = "describe_iam_role"
    /\ aws_session # None

\* C2: when the SDK fails in a Tool Executor operation, the result has
\* success=false, and requiresCredentials is true exactly when the failure
\* is a ClientError with code InvalidAccessKeyId, SignatureDoesNotMatch or
\* AccessDenied; NoSuchBucket, any other code and any other error give
\* requiresCredentials=false.
C2_ErrorCodeMapping ==
    (tool_pc = "returned" /\ tool_invocation.raised.type # None) =>
        /\ tool_result.success = FALSE
        /\ tool_result.requires_credentials =
              (/\ tool_invocation.raised.type = "ClientError"
               /\ tool_invocation.raised.code \in CredentialCodes)

\* AccessDenied met while paging through the second bucket of a file count.
C2_Witness ==
    /\ tool_pc = "returned"
    /\ tool_invocation.op = "get_s3_bucket_file_count"
    /\ tool_invocation.raised.type = "ClientError"
    /\ tool_invocation.raised.code = "AccessDenied"
    /\ Len(sdk_calls) = 6
    /\ tool_result.requires_credentials

\* describe_iam_role has returned from a call with valid credentials for a
\* role the account does not have, nothing else failing.
MissingRoleDescribed ==
    /\ tool_pc = "returned"
    /\ tool_invocation.op = "describe_iam_role"
    /\ tool_invocation.credentials \in ValidCredentials
    /\ tool_invocation.sdk.fault_at = 0
    /\ tool_invocation.arg \notin tool_invocation.sdk.world.roles

C15_NoExceptionEscapes ==
    tool_pc = "returned" =>
        /\ ~tool_invocation.escaped
        /\ tool_result # Uncaught
        /\ tool_result.success \in BOOLEAN
        /\ tool_result.requires_credentials \in BOOLEAN
        /\ tool_result.message # <<>>
        /\ tool_invocation.raised.type # None => ~tool_result.success

\* get_s3_bucket_sizes has returned after a connection failure on the
\* first page of the second bucket.
C15_Witness ==
    /\ tool_pc = "returned"
    /\ tool_invocation.op = "get_s3_bucket_sizes"
    /\ tool_invocation.credentials \in ValidCredentials
    /\ tool_invocation.raised.type = "BotoCoreError"
    /\ tool_invocation.sdk.fault_at = 6
    /\ Len(sdk_calls) = 6
    /\ ~tool_result.success

----------------------------------------------------------------------------
(* Properties of process_request and POST /chat (checked under Spec).      *)

\* The for loop left at tool call idx, by a return or an exception.
StoppedInLoop ==
    /\ outcome.kind # None
    /\ tool_calls # <<>>
    /\ idx <= Len(tool_calls)

\* actions_taken after the tool calls 1..n all succeeded.
ActionsOf(n) ==
    [j \in 1..n |-> <<"Successfully executed ", tool_calls[j].name>>]

\* A dispatched call that came back with a failure not asking for
\* credentials.
FailedResult(d) ==
    d.returned /\ ~d.resp.success /\ ~d.resp.requires_credentials

\* C3: when the result of tool call k is the first with success=false
\* (not requiring credentials), it is the last call dispatched, the calls
\* before it were dispatched in order and succeeded, and the response
\* returned carries the failure message and, as actions_taken, exactly
\* the entries of calls 1..k-1 in order.
C3_FailureShortCircuit ==
    \A n \in 1..Len(dispatched) :
        FailedResult(dispatched[n]) =>
            /\ n = Len(dispatched)
            /\ dispatched[n].idx = n
            /\ \A j \in 1..(n - 1) :
                  /\ dispatched[j].idx = j
                  /\ dispatched[j].returned /\ dispatched[j].resp.success
            /\ idx = n
            /\ pc \in {"FAILED_OPERATION", "answered"}
            /\ outcome.kind = "response"
            /\ outcome.resp.response = dispatched[n].resp.message
            /\ outcome.resp.actions_taken = ActionsOf(idx - 1)

\* The first of two calls fails and the second, a Tool Executor operation,
\* is left undispatched.
C3_Witness ==
    /\ pc = "FAILED_OPERATION"
    /\ Len(tool_calls) = 2
    /\ idx = 1
    /\ tool_calls[2].name \in ToolOperations
    /\ FailedResult(dispatched[1])

\* The second of two calls fails after the first succeeded.
C3_WitnessAfterSuccess ==
    /\ pc = "FAILED_OPERATION"
    /\ idx = 2
    /\ Len(actions_taken) = 1

\* C4 as stated: in a request without credentials, whenever the loop is
\* left at a credential-requiring tool call, it is left with a normal
\* response that has requiresCredentials=true, and no credential-requiring
\* call was dispatched nor any SDK call made.
C4_AsStated ==
    req.awsCredentials = None =>
        /\ \A n \in 1..Len(dispatched) :
              dispatched[n].name \notin aws_operations
        /\ sdk_calls = <<>>
        /\ (StoppedInLoop /\ tool_calls[idx].name \in aws_operations) =>
              /\ outcome.kind = "response"
              /\ outcome.resp.requiresCredentials = "True"

\* C4, amended: the same for a credential-requiring tool call whose
\* arguments parse as JSON (the arguments are parsed before the
\* credentials are looked at); calls the loop has passed are not
\* credential-requiring, and nothing after the call is dispatched.
C4_NeedsCredentials ==
    req.awsCredentials = None =>
        /\ \A n \in 1..Len(dispatched) :
              /\ dispatched[n].name \notin aws_operations
              /\ dispatched[n].idx <= idx
        /\ sdk_calls = <<>>
        /\ \A j \in 1..Len(tool_calls) :
              (j < idx) => tool_calls[j].name \notin aws_operations
        /\ (/\ StoppedInLoop
            /\ tool_calls[idx].name \in aws_operations
            /\ JsonLoads(tool_calls[idx].arguments).ok) =>
              /\ pc \in {"NEEDS_CREDENTIALS", "answered"}
              /\ outcome.kind = "response"
              /\ outcome.resp.requiresCredentials = "True"
              /\ outcome.resp = NeedCredentialsResponse
              /\ \A n \in 1..Len(dispatched) : dispatched[n].idx < idx

\* A request without credentials stopped at the first of two tool calls, an
\* operation of the Tool Executor flagged in aws_operations; the second call
\* is left undispatched.
C4_Witness ==
    /\ req.awsCredentials = None
    /\ pc = "NEEDS_CREDENTIALS"
    /\ Len(tool_calls) = 2
    /\ idx = 1
    /\ tool_calls[1].name \in aws_operations
    /\ tool_calls[1].name \in ToolOperations
    /\ outcome.resp.requiresCredentials = "True"

\* C5: every tool call that came back with success=true has a tool-role
\* message in the conversation that carries the call's tool_call_id and
\* whose content is the json.dumps serialization of the call's data payload.
C5_RoundTrip ==
    \A n \in 1..Len(dispatched) :
        (dispatched[n].returned /\ dispatched[n].resp.success) =>
            \E m \in 1..Len(openai_messages) :
                /\ openai_messages[m].role = "tool"
                /\ openai_messages[m].tool_call_id = tool_calls[dispatched[n].idx].id
                /\ JsonSerializable(dispatched[n].resp.data)
                /\ openai_messages[m].content = JsonDumps(dispatched[n].resp.data)

\* C6: a failure of the primary model with an authentication, rate-limit or
\* bad-request error is answered with status 401, 429 or 400 respectively.
C6_ModelErrorStatus ==
    (pc = "answered" /\ outcome.kind = "raise") =>
        /\ outcome.cause.type = "AuthenticationError" => http.status = 401
        /\ outcome.cause.type = "RateLimitError" => http.status = 429
        /\ outcome.cause.type = "BadRequestError" => http.status = 400

\* C9: the dispatch of a tool declared in self.tools, in a request that
\* carries credentials, never ends in the "Unknown function" exception of
\* _execute_function.
C9_DeclaredToolsResolve ==
    ~ /\ outcome.kind = "raise"
      /\ req.awsCredentials # None
      /\ tool_calls # <<>>
      /\ idx <= Len(tool_calls)
      /\ tool_calls[idx].name \in DeclaredTools
      /\ outcome.cause.text = <<"Unknown function: ", tool_calls[idx].name>>

\* C12: between requests the process-wide objects hold nothing built from
\* a request's credentials: AWSTools.session and BedrockAgent.session are
\* what they were at startup.
C12_NoCredentialsRetained ==
    (pc \in {"idle", "answered"} /\ rv_pc \in {"idle", "answered"}) =>
        /\ aws_session = None
        /\ bedrock_session = None

\* The response of lines 322-325 was returned: an exception of the tool
\* call was turned into a request for credentials.  Its str(e) follows the
\* fixed prefix of the response text.
ConvertedException ==
    /\ outcome.kind = "response"
    /\ outcome.resp.response # <<>>
    /\ Head(outcome.resp.response) =
          "I need valid AWS credentials to perform this operation: "

\* The exceptions that report a credential problem of the Tool Executor:
\* the two texts _init_session hands to the raise of _get_client.
CredentialProblem(text) ==
    /\ text # <<>>
    /\ text[1] \in {"AWS credentials are required for this operation",
                    "Failed to initialize AWS session: "}

\* C13: an exception met while handling a tool call is answered with a
\* requiresCredentials response only if it reports a credential or
\* permission problem; an unknown function, a keyword that does not bind or
\* a result that cannot be serialized leaves process_request as an error.
C13_OnlyCredentialProblemsConverted ==
    ConvertedException => CredentialProblem(Tail(outcome.resp.response))

\* A request is under way in process_request.
Running == pc \in {"AWAIT_MODEL_DECISION", "DISPATCHING_TOOLS", "AWAIT_FINAL_REPLY"}

\* The most steps process_request still takes before it returns or raises:
\* the model call, one pass of the for loop per tool call left, the final
\* model call.
StepsLeft ==
    IF pc = "AWAIT_MODEL_DECISION" THEN MaxToolCalls + 2
    ELSE IF pc = "DISPATCHING_TOOLS" THEN (Len(tool_calls) - idx) + 2
    ELSE IF pc = "AWAIT_FINAL_REPLY" THEN 1
    ELSE 0

\* A running request can take a step (the model replies or raises; the
\* for loop has a tool call left to handle), and every step brings it
\* closer to a terminal: it has returned or raised within StepsLeft steps.
Terminates ==
    /\ [](pc = "AWAIT_MODEL_DECISION" => ENABLED ModelAnswers)
    /\ [](pc = "DISPATCHING_TOOLS" => idx \in 1..Len(tool_calls))
    /\ [](pc = "AWAIT_FINAL_REPLY" => ENABLED FinalReply)
    /\ [][Running => StepsLeft' < StepsLeft]_vars

\* The positions a request moves between, as the claim lists them; a new
\* request starts at AWAIT_MODEL_DECISION once the last one was answered.
ListedTransition ==
    \/ pc \in {"idle", "answered"} /\ pc' = "AWAIT_MODEL_DECISION"
    \/ pc = "AWAIT_MODEL_DECISION" /\ pc' \in {"DONE", "DISPATCHING_TOOLS"}
    \/ pc = "DISPATCHING_TOOLS"
         /\ pc' \in {"AWAIT_FINAL_REPLY", "NEEDS_CREDENTIALS",
                     "FAILED_OPERATION", "REQUEST_ERROR"}
    \/ pc = "AWAIT_FINAL_REPLY" /\ pc' = "DONE"
    \/ pc \in Terminal /\ pc' = "answered"

\* A call of the primary model raises (lines 240-254 and 339-341).
ModelErrorTransition ==
    /\ pc \in {"AWAIT_MODEL_DECISION", "AWAIT_FINAL_REPLY"}
    /\ pc' = "REQUEST_ERROR"

\* C16 as stated: a request moves only along AWAIT_MODEL_DECISION -> DONE,
\* AWAIT_MODEL_DECISION -> DISPATCHING_TOOLS -> AWAIT_FINAL_REPLY -> DONE and
\* DISPATCHING_TOOLS -> an early-exit terminal, and reaches a terminal.
C16_AsStated ==
    /\ [][ListedTransition]_pc
    /\ Terminates

\* C16, amended: the listed transitions and, besides, AWAIT_MODEL_DECISION
\* or AWAIT_FINAL_REPLY -> request-level error when the model call raises;
\* every request reaches a terminal, whose outcome is a response exactly
\* when the terminal is no request-level error, and leaves it only by being
\* answered.
C16_Transitions ==
    /\ [][ListedTransition \/ ModelErrorTransition]_pc
    /\ [](pc \in Terminal => (outcome.kind = "raise" <=> pc = "REQUEST_ERROR"))
    /\ [](pc \in Terminal => outcome.kind \in {"raise", "response"})
    /\ [](pc \notin (Terminal \cup {"answered"}) => outcome.kind = None)
    /\ Terminates

\* The final reply failed after both tool calls of the batch succeeded.
C16_Witness ==
    /\ pc = "REQUEST_ERROR"
    /\ Len(tool_calls) = 2
    /\ idx = 3
    /\ Len(model_log) = 2
    /\ outcome.cause \in ModelErrors

\* The names of the first n tool calls that are flagged in aws_operations,
\* in the order of the model's reply.
RECURSIVE FlaggedNames(_)
FlaggedNames(n) ==
    IF n = 0 THEN <<>>
    ELSE IF tool_calls[n].name \in aws_operations
    THEN Append(FlaggedNames(n - 1), tool_calls[n].name)
    ELSE FlaggedNames(n - 1)

\* A step of a request that hands a tool call to the Tool Executor (a new
\* request starts with none handed over): it is call idx, and the calls
\* before it each have their entry in actions_taken and their two messages
\* in the conversation already.
DispatchInOrder ==
    (dispatched' # dispatched /\ pc' # "AWAIT_MODEL_DECISION") =>
        /\ pc = "DISPATCHING_TOOLS"
        /\ Len(dispatched') = Len(dispatched) + 1
        /\ SubSeq(dispatched', 1, Len(dispatched)) = dispatched
        /\ dispatched'[Len(dispatched')].idx = idx
        /\ dispatched'[Len(dispatched')].name = tool_calls[idx].name
        /\ idx' \in {idx, idx + 1}
        /\ Len(dispatched) = idx - 1
        /\ actions_taken = ActionsOf(idx - 1)
        /\ Len(openai_messages) = Len(req.messages) + 2 * (idx - 1)

\* C17: the tool calls of a request reach the Tool Executor one per step,
\* in the order of the model's reply, each after the result of the one
\* before was recorded; actions_taken and aws_resources_affected list the
\* calls in that order.
C17_SequentialDispatch ==
    /\ [][DispatchInOrder]_vars
    /\ [](\A n \in 1..Len(dispatched) :
             /\ dispatched[n].idx = n
             /\ n < Len(dispatched) =>
                   dispatched[n].returned /\ dispatched[n].resp.success)
    /\ [](/\ Len(actions_taken) <= Len(tool_calls)
          /\ actions_taken = ActionsOf(Len(actions_taken))
          /\ Len(actions_taken) = Len(aws_resources_affected)
          /\ [i \in 1..Len(aws_resources_affected) |->
                 aws_resources_affected[i].operation]
               = FlaggedNames(Len(actions_taken)))

\* Two calls of different operations were handled, both with success.
C17_Witness ==
    /\ pc = "AWAIT_FINAL_REPLY"
    /\ Len(tool_calls) = 2
    /\ tool_calls[1].name # tool_calls[2].name
    /\ Len(dispatched) = 2
    /\ Len(actions_taken) = 2
    /\ Len(aws_resources_affected) = 2

\* process_request returned a response from inside the for loop.
ShortCircuited == StoppedInLoop /\ outcome.kind = "response"

\* C19: whenever process_request returns from inside the dispatch loop
\* (credentials missing, a result asking for credentials, or a failed
\* result), the only model call of the request is the first one; and a
\* result with requires_credentials is the last call dispatched, ends the
\* request there, and the response carries that result's message with
\* requiresCredentials=true.
C19_ShortCircuitSkipsFinalReply ==
    /\ ShortCircuited =>
          /\ Len(model_log) = 1
          /\ model_log[1].tools
          /\ model_log[1].messages = req.messages
    /\ pc \in {"NEEDS_CREDENTIALS", "FAILED_OPERATION"} => ShortCircuited
    /\ \A n \in 1..Len(dispatched) :
          (dispatched[n].returned /\ dispatched[n].resp.requires_credentials) =>
              /\ n = Len(dispatched)
              /\ idx = dispatched[n].idx
              /\ ShortCircuited
              /\ pc \in {"NEEDS_CREDENTIALS", "answered"}
              /\ outcome.resp.response = dispatched[n].resp.message
              /\ outcome.resp.requiresCredentials = "True"

\* The second of two tool calls came back asking for credentials after the
\* first had succeeded.
C19_Witness ==
    /\ pc = "NEEDS_CREDENTIALS"
    /\ Len(tool_calls) = 2
    /\ idx = 2
    /\ Len(dispatched) = 2
    /\ dispatched[1].resp.success
    /\ dispatched[2].returned /\ dispatched[2].resp.requires_credentials
    /\ dispatched[2].resp.message # <<>>

\* Every tool call of the reply was dispatched and returned success=true.
AllSucceeded ==
    /\ tool_calls # <<>>
    /\ Len(dispatched) = Len(tool_calls)
    /\ \A n \in 1..Len(dispatched) :
          /\ dispatched[n].idx = n
          /\ dispatched[n].returned /\ dispatched[n].resp.success

\* The two messages of lines 306-317 for each of the first n tool calls.
RECURSIVE ToolExchange(_)
ToolExchange(n) ==
    IF n = 0 THEN <<>>
    ELSE ToolExchange(n - 1)
         \o <<AssistantRecord(tool_calls[n]),
              ToolMessage(tool_calls[n], dispatched[n].resp.data)>>

\* C20: when all n >= 1 tool calls of the first reply succeeded, the model
\* has been contacted exactly twice, the second time with the original
\* messages followed, for each tool call in order, by its assistant record
\* and its tool result, and a response returned carries the second reply
\* with requiresCredentials=false; when the first reply has no tool calls
\* the model has been contacted exactly once and nothing was dispatched.
C20_FinalConversation ==
    /\ AllSucceeded =>
          /\ Len(model_log) = 2
          /\ model_log[1].messages = req.messages
          /\ Len(model_log[2].messages) =
                Len(req.messages) + 2 * Len(tool_calls)
          /\ model_log[2].messages =
                req.messages \o ToolExchange(Len(tool_calls))
          /\ outcome.kind = "response" =>
                /\ outcome.resp.response = FinalReplyText
                /\ outcome.resp.requiresCredentials = "False"
    /\ (outcome.kind = "response" /\ tool_calls = <<>>) =>
          /\ Len(model_log) = 1
          /\ dispatched = <<>>
          /\ sdk_calls = <<>>
          /\ outcome.resp.response = FirstReplyText
          /\ outcome.resp.requiresCredentials = "False"

\* C21: in every response process_request returns, no entry of
\* aws_resources_affected holds the credentials of the request: entry i
\* names tool call i and its parameters are the parsed arguments of that
\* call without the key "credentials", whatever the model put under it.
C21_NoCredentialsInResources ==
    outcome.kind = "response" =>
        \A i \in 1..Len(outcome.resp.aws_resources_affected) :
            \E e \in {outcome.resp.aws_resources_affected[i]},
               args \in {JsonLoads(tool_calls[i].arguments).value} :
                /\ e.operation = tool_calls[i].name
                /\ "credentials" \notin DOMAIN e.parameters
                /\ DOMAIN e.parameters = DOMAIN args \ {"credentials"}
                /\ \A k \in DOMAIN e.parameters :
                      /\ e.parameters[k] = args[k]
                      /\ e.parameters[k] \notin Credentials

\* A response reports a tool call that ran with the request's credentials
\* and whose arguments, as the model sent them, had a "credentials" key.
C21_Witness ==
    /\ pc = "DONE"
    /\ outcome.kind = "response"
    /\ req.awsCredentials \in Credentials
    /\ \E i \in 1..Len(outcome.resp.aws_resources_affected) :
          /\ "credentials" \in DOMAIN JsonLoads(tool_calls[i].arguments).value
          /\ outcome.resp.aws_resources_affected[i].parameters # EmptyDict

\* C23: a tool call whose function name is not declared in self.tools is
\* never executed against the Tool Executor: every call for which an
\* attribute of AWSTools was invoked names a declared tool.
C23_OnlyDeclaredToolsExecuted ==
    \A n \in 1..Len(dispatched) : dispatched[n].name \in DeclaredTools

\* C24: every response process_request returns reports all the operations
\* executed with success before it returned: when the loop is left at tool
\* call k with a response, actions_taken and aws_resources_affected of the
\* response each hold one entry for each of the calls 1..k-1, as the loop
\* recorded them.
C24_ResponseReportsExecuted ==
    ShortCircuited =>
        /\ Len(outcome.resp.actions_taken) = idx - 1
        /\ outcome.resp.actions_taken = actions_taken
        /\ Len(outcome.resp.aws_resources_affected) = idx - 1
        /\ outcome.resp.aws_resources_affected = aws_resources_affected

----------------------------------------------------------------------------
(* Properties of the Policy Reviewer and its endpoints (checked under      *)
(* SpecReviewer).                                                          *)

\* suggest_iam_policy has come back from a completion that json.loads
\* rejects.
UnparsableSuggestion ==
    /\ rv_pc \in {"returned", "answered"}
    /\ rv_req.op = "suggest_iam_policy"
    /\ rv_result.completion # ""
    /\ ~LoadsCompletion(rv_result.completion).ok

\* C7: POST /suggest-iam-policy answers 400 when suggest_iam_policy returned
\* the {error, response} value.
C7_UnparsablePolicyStatus ==
    (/\ rv_pc = "answered"
     /\ rv_req.op = "suggest_iam_policy"
     /\ rv_result.kind = "return"
     /\ rv_result.value.keys = {"error", "response"}) => rv_http = 400

\* C8: on a non-empty completion that is not valid JSON, suggest_iam_policy
\* returns a dict with the keys error and response, response being the raw
\* completion, and raises nothing.
C8_ParseFailureReturned ==
    UnparsableSuggestion =>
        /\ rv_result.kind = "return"
        /\ rv_result.exc = NoError
        /\ rv_result.value.type = "dict"
        /\ rv_result.value.keys = {"error", "response"}
        /\ rv_result.value.response = rv_result.completion

\* suggest_iam_policy has returned on the completion "Here is a policy you
\* could use".
C8_Witness ==
    /\ UnparsableSuggestion
    /\ rv_req.env.completion = "Here is a policy you could use"
    /\ rv_result.kind = "return"
    /\ rv_result.value.response = "Here is a policy you could use"

\* C10: validate_aws_operation called with credentials, the identity check
\* failing: the verdict of lines 60-75 is returned, with is_valid False and
\* invalid_parameters ["credentials"], and the secondary model has not been
\* invoked.
C10_InvalidCredentialsVerdict ==
    (/\ rv_pc \in {"returned", "answered"}
     /\ rv_req.op = "validate_aws_operation"
     /\ rv_req.credentials # None
     /\ rv_result.identity = "failed") =>
        /\ rv_result.kind = "return"
        /\ rv_result.value.keys = InvalidCredentialsVerdict.keys
        /\ rv_result.value.is_valid = "False"
        /\ rv_result.value.invalid_parameters = <<"credentials">>
        /\ rv_result.invocations = <<>>
        /\ bedrock_log = <<>>

\* The identity check has failed on the call of get_caller_identity itself,
\* the session at hand being one of valid credentials and the model ready
\* with a verdict.
C10_Witness ==
    /\ rv_pc = "returned"
    /\ rv_req.op = "validate_aws_operation"
    /\ rv_req.credentials \in ValidCredentials
    /\ rv_req.session_before \in ValidCredentials
    /\ rv_req.env.sts_fault
    /\ rv_req.env.bedrock_fault = None
    /\ rv_req.env.completion = "{\"is_valid\": true}"
    /\ rv_result.identity = "failed"
    /\ rv_result.value = InvalidCredentialsVerdict

\* validate_aws_operation has come back from a call whose credentials are
\* valid, with nothing going wrong in get_caller_identity itself.
ValidatedWithValidCredentials ==
    /\ rv_pc \in {"returned", "answered"}
    /\ rv_req.op = "validate_aws_operation"
    /\ rv_req.credentials \in ValidCredentials
    /\ ~rv_req.env.sts_fault

\* C11: whatever reviewer calls came before, a call of
\* validate_aws_operation with credentials of a valid identity passes the
\* identity check, invokes the secondary model with those credentials and,
\* when the completion parses to a dict with is_valid, returns that dict.
C11_IdentityOfSuppliedCredentials ==
    ValidatedWithValidCredentials =>
        /\ rv_result.identity = "passed"
        /\ rv_result.invocations # <<>>
        /\ \A i \in 1..Len(rv_result.invocations) :
              rv_result.invocations[i].credentials = rv_req.credentials
        /\ (/\ rv_req.env.bedrock_fault = None
            /\ LoadsCompletion(rv_req.env.completion).ok
            /\ LoadsCompletion(rv_req.env.completion).value.type = "dict"
            /\ "is_valid" \in LoadsCompletion(rv_req.env.completion).value.keys) =>
              /\ rv_result.kind = "return"
              /\ rv_result.value = LoadsCompletion(rv_req.env.completion).value

----------------------------------------------------------------------------
(* Properties of concurrent tool calls (checked under SpecConcurrent).     *)

\* C18: however the tool calls of concurrent requests on the one AWSTools
\* instance are interleaved, the SDK client a tool call uses is built from
\* the session created from the credentials passed to that same call, never
\* from a session created for another request; a call that returned
\* success has used such a client.
C18_ClientFromOwnSession ==
    \A r \in Requests :
        /\ inflight[r].client # None =>
              inflight[r].client = inflight[r].credentials
        /\ inflight[r].success =>
              /\ inflight[r].credentials \in Credentials
              /\ inflight[r].client = inflight[r].credentials

\* A call built its client from its own credentials although the shared
\* session it found was the one another request, still in flight, had
\* created from other credentials.
C18_Witness ==
    \E r \in Requests, q \in Requests :
        /\ r # q
        /\ inflight[r].pc = "returned" /\ inflight[q].pc = "returned"
        /\ inflight[r].success
        /\ inflight[r].client = inflight[r].credentials
        /\ inflight[q].client # None
        /\ inflight[q].client # inflight[r].credentials
        /\ inflight[r].session_before = inflight[q].client

----------------------------------------------------------------------------
(* Properties of the file count (checked under SpecCount).                 *)

\* A call of get_s3_bucket_file_count with valid credentials for all
\* buckets or for a bucket of the account.
Counted ==
    /\ tool_pc = "returned"
    /\ tool_invocation.op = "get_s3_bucket_file_count"
    /\ tool_invocation.credentials \in ValidCredentials
    /\ tool_invocation.arg \in
          {None} \cup DOMAIN tool_invocation.sdk.world.pages

\* C22: get_s3_bucket_file_count, whatever pages the listing of a bucket
\* comes in (pages without Contents included), succeeds and reports for
\* each bucket the number of its objects as file_count and the sum of their
\* sizes as total_size_bytes; with bucket_name given the one entry is that
\* bucket's, with none given there is one entry per bucket of list_buckets,
\* in that order.
C22_CountIndependentOfPages ==
    Counted =>
        \E world \in {tool_invocation.sdk.world} :
        \E buckets \in {IF tool_invocation.arg = None THEN world.buckets
                        ELSE <<tool_invocation.arg>>} :
            /\ tool_result.success
            /\ tool_result.data.kind = "bucket_stats"
            /\ Len(tool_result.data.items) = Len(buckets)
            /\ \A i \in 1..Len(buckets) :
                  /\ tool_result.data.items[i].bucket_name = buckets[i]
                  /\ tool_result.data.items[i].file_count =
                        Len(world.objects[buckets[i]])
                  /\ tool_result.data.items[i].total_size_bytes =
                        SumSeq(world.objects[buckets[i]])

\* Ten objects totalling 5,242,880 bytes, listed in two pages that both
\* have Contents, are reported as 10 files.
C22_Witness ==
    /\ Counted
    /\ tool_invocation.arg = "b1"
    /\ tool_invocation.sdk.world.objects["b1"] = TenObjects
    /\ Len(tool_invocation.sdk.world.pages["b1"]) = 2
    /\ \A j \in 1..2 :
          "Contents" \in DOMAIN tool_invocation.sdk.world.pages["b1"][j]
    /\ tool_result.data.items[1].file_count = 10
    /\ tool_result.data.items[1].total_size_bytes = 5242880
    /\ tool_result.data.items[1].total_size_mb = 500

=============================================================================
